---- MODULE Spec2Model ----
(***************************************************************************)
(* Model of src/pdf_to_json.py: the heading/paragraph classifier of a page *)
(* (extract_paragraphs_and_headings_from_page), the font profile           *)
(* (gather_font_sizes) and the page/document assembly of parse_pdf.        *)
(*                                                                         *)
(* Texts are sequences of one-character strings.  "~" stands for the       *)
(* no-break space U+00A0.  Font sizes are integers in hundredths of a      *)
(* point, so 0.5 is 50 and round(x, 1) is rounding to a multiple of 10.    *)
(* A Python string literal is the one-element sequence holding it, and     *)
(* Python's None is the one-element sequence <<"None">>, so that every     *)
(* optional text is comparable with every text.                            *)
(***************************************************************************)
EXTENDS Integers, Sequences, FiniteSets, TLC

None == <<"None">>

\* ------------------------------------------------------------------ text
\* What str.strip, str.split and the regex class \s treat as white space.
IsSpace(c) == c \in {" ", "~"}

IsDigit(c) == c \in {"1", "2"}

RECURSIVE lstrip(_)
lstrip(t) == IF t # <<>> /\ IsSpace(Head(t)) THEN lstrip(Tail(t)) ELSE t

RECURSIVE rstrip(_)
rstrip(t) ==
  IF t # <<>> /\ IsSpace(t[Len(t)]) THEN rstrip(SubSeq(t, 1, Len(t) - 1)) ELSE t

\* str.strip()
strip(t) == rstrip(lstrip(t))

\* str.replace('\xa0', ' ')
replace_nbsp(t) == [k \in 1..Len(t) |-> IF t[k] = "~" THEN " " ELSE t[k]]

\* index of the first position >= p of t that holds no white space
RECURSIVE SkipSpace(_, _)
SkipSpace(t, p) == IF p <= Len(t) /\ IsSpace(t[p]) THEN SkipSpace(t, p + 1) ELSE p

\* index of the first position >= p of t that holds white space (or Len+1)
RECURSIVE SkipWord(_, _)
SkipWord(t, p) == IF p <= Len(t) /\ ~IsSpace(t[p]) THEN SkipWord(t, p + 1) ELSE p

\* str.split() with no argument: the maximal runs of non-space characters
RECURSIVE split(_)
split(t) ==
  LET s == lstrip(t)
      e == SkipWord(s, 1)
  IN IF s = <<>> THEN <<>>
     ELSE <<SubSeq(s, 1, e - 1)>> \o split(SubSeq(s, e, Len(s)))

\* sep.join(words)
RECURSIVE join(_, _)
join(sep, words) ==
  IF words = <<>> THEN <<>>
  ELSE IF Len(words) = 1 THEN words[1]
  ELSE words[1] \o sep \o join(sep, Tail(words))

clean_line(text) == join(<<" ">>, split(replace_nbsp(text)))

\* ------------------------------------------------- is_numbered_heading
\* index of the first position >= p of t that holds no digit
RECURSIVE SkipDigits(_, _)
SkipDigits(t, p) == IF p <= Len(t) /\ IsDigit(t[p]) THEN SkipDigits(t, p + 1) ELSE p

\* (?:\.\d+)* from position p, greedy: the position after the last group
RECURSIVE SkipDotGroups(_, _)
SkipDotGroups(t, p) ==
  IF p + 1 <= Len(t) /\ t[p] = "." /\ IsDigit(t[p + 1])
  THEN SkipDotGroups(t, SkipDigits(t, p + 1))
  ELSE p

\* numbering.count('.')
RECURSIVE count_dots(_)
count_dots(t) ==
  IF t = <<>> THEN 0 ELSE (IF Head(t) = "." THEN 1 ELSE 0) + count_dots(Tail(t))

\* re.match(r'^\s*(\d+(?:\.\d+)*)(?:\s+|-)\s*(.*)', text).  A shorter
\* numbering than the greedy one is followed by a digit or a dot, never by a
\* separator, so backtracking finds no other match.
is_numbered_heading(text) ==
  LET p == SkipSpace(text, 1)
      d == SkipDigits(text, p)
      q == SkipDotGroups(text, d)
      numbering == SubSeq(text, p, q - 1)
      r == IF q <= Len(text) /\ IsSpace(text[q]) THEN SkipSpace(text, q)
           ELSE SkipSpace(text, q + 1)
      rest == strip(SubSeq(text, r, Len(text)))
  IN IF text = <<>> THEN [matched |-> FALSE]
     ELSE IF d > p /\ q <= Len(text) /\ (IsSpace(text[q]) \/ text[q] = "-")
     THEN [matched |-> TRUE, numbering |-> numbering, title |-> rest,
           level |-> count_dots(numbering) + 1]
     ELSE [matched |-> FALSE]

\* ------------------------------------------------------------ a line
\* round(size, 1) of a size given in hundredths (no input lies on a half)
Round1(x) == ((x + 5) \div 10) * 10

\* ''.join([s.get("text","") for s in spans])
RECURSIVE join_spans(_)
join_spans(spans) ==
  IF spans = <<>> THEN <<>> ELSE Head(spans).text \o join_spans(Tail(spans))

line_text_of(spans) == strip(join_spans(spans))

\* max((round(s.get("size",0),1) for s in spans)), spans not empty
max_size_of(spans) ==
  CHOOSE m \in {Round1(spans[k].size) : k \in 1..Len(spans)} :
    \A k \in 1..Len(spans) : Round1(spans[k].size) <= m

\* 'Bold' in f or 'bold' in f.lower(), over the font names of the model
BoldFonts == {"Helvetica-Bold", "Arial-BOLDMT"}

is_bold_of(spans) == \E k \in 1..Len(spans) : spans[k].font \in BoldFonts

\* An optional size is a sequence of at most one size; its truth value in
\* `if section_size and ...` is: set and not 0.
Truthy(o) == o # <<>> /\ o[1] # 0

\* len(line_text) < 120
BoldMaxLen == 120

\* statistics.mean([subsection_size or section_size or max_size])
mean_ref(section_size, subsection_size, max_size) ==
  IF Truthy(subsection_size) THEN subsection_size[1]
  ELSE IF Truthy(section_size) THEN section_size[1]
  ELSE max_size

\* the bold-short condition with >= for >
bold_condition_ge(spans, section_size, subsection_size) ==
  /\ is_bold_of(spans)
  /\ Len(line_text_of(spans)) < BoldMaxLen
  /\ max_size_of(spans) >=
       (IF Truthy(subsection_size)
        THEN mean_ref(section_size, subsection_size, max_size_of(spans))
        ELSE max_size_of(spans))

\* the condition of the bold-short branch
bold_condition(spans, section_size, subsection_size) ==
  /\ is_bold_of(spans)
  /\ Len(line_text_of(spans)) < BoldMaxLen
  /\ max_size_of(spans) >
       (IF Truthy(subsection_size)
        THEN mean_ref(section_size, subsection_size, max_size_of(spans))
        ELSE max_size_of(spans))

\* ------------------------------------------------- the page builder
\* The locals of extract_paragraphs_and_headings_from_page as one record.
\* flushed, buffered and branch are history fields: the number of
\* flush_paragraph calls that found a non-empty buffer, the line texts
\* appended to the buffer so far, and the branch the last line took.
NewBuilder ==
  [current_section |-> None, current_sub |-> None, content |-> <<>>,
   paragraph_buffer |-> <<>>, flushed |-> 0, buffered |-> <<>>,
   branch |-> "none"]

\* flush_paragraph without its `if paragraph_buffer:` guard
flush_paragraph_unguarded(st) ==
  [st EXCEPT
     !.content = Append(@, [type |-> "paragraph",
                            section |-> st.current_section,
                            sub_section |-> st.current_sub,
                            text |-> clean_line(join(<<" ">>, st.paragraph_buffer))]),
     !.paragraph_buffer = <<>>,
     !.flushed = IF st.paragraph_buffer # <<>> THEN @ + 1 ELSE @]

flush_paragraph(st) ==
  IF st.paragraph_buffer # <<>>
  THEN [st EXCEPT
          !.content = Append(@, [type |-> "paragraph",
                                 section |-> st.current_section,
                                 sub_section |-> st.current_sub,
                                 text |-> clean_line(join(<<" ">>, st.paragraph_buffer))]),
          !.paragraph_buffer = <<>>,
          !.flushed = @ + 1]
  ELSE st

Heading(level, text) == [type |-> "heading", level |-> level, text |-> text]

\* heading_text taken to be the whole line also for a numbered line
heading_text_whole_line(line_text) == line_text

\* heading_text: num_info["title"] or line_text, else line_text
heading_text_of(line_text) ==
  LET num_info == is_numbered_heading(line_text)
  IN IF num_info.matched /\ num_info.title # <<>> THEN num_info.title ELSE line_text

\* the section branch without `current_sub = None`
section_branch_keeps_sub(st, heading_text) ==
  LET f == flush_paragraph(st)
  IN [f EXCEPT !.current_section = heading_text,
               !.content = Append(@, Heading(1, heading_text)),
               !.branch = "section_size"]

section_branch(st, heading_text) ==
  LET f == flush_paragraph(st)
  IN [f EXCEPT !.current_section = heading_text, !.current_sub = None,
               !.content = Append(@, Heading(1, heading_text)),
               !.branch = "section_size"]

subsection_branch(st, heading_text) ==
  LET f == flush_paragraph(st)
  IN [f EXCEPT !.current_sub = heading_text,
               !.content = Append(@, Heading(2, heading_text)),
               !.branch = "subsection_size"]

numbering_branch(st, line_text) ==
  LET num_info == is_numbered_heading(line_text)
      heading_level == IF num_info.level = 1 THEN 1 ELSE 2
      heading_text == heading_text_of(line_text)
      f == flush_paragraph(st)
  IN IF heading_level = 1
     THEN [f EXCEPT !.current_section = heading_text, !.current_sub = None,
                    !.content = Append(@, Heading(1, heading_text)),
                    !.branch = "numbering"]
     ELSE [f EXCEPT !.current_sub = heading_text,
                    !.content = Append(@, Heading(2, heading_text)),
                    !.branch = "numbering"]

bold_branch(st, line_text) ==
  LET f == flush_paragraph(st)
  IN [f EXCEPT !.current_sub = line_text,
               !.content = Append(@, Heading(2, line_text)),
               !.branch = "bold"]

\* the body of `for line in b.get("lines", [])` for one line
process_line(st, spans, section_size, subsection_size, tol) ==
  LET line_text == line_text_of(spans)
      max_size == max_size_of(spans)
      num_info == is_numbered_heading(line_text)
      heading_text == heading_text_of(line_text)
  IN IF spans = <<>> THEN [st EXCEPT !.branch = "skipped"]
     ELSE IF line_text = <<>> THEN [st EXCEPT !.branch = "skipped"]
     ELSE IF Truthy(section_size) /\ max_size >= section_size[1] - tol
          THEN section_branch(st, heading_text)
     ELSE IF Truthy(subsection_size) /\ max_size >= subsection_size[1] - tol
          THEN subsection_branch(st, heading_text)
     ELSE IF num_info.matched THEN numbering_branch(st, line_text)
     ELSE IF bold_condition(spans, section_size, subsection_size)
          THEN bold_branch(st, line_text)
     ELSE [st EXCEPT !.paragraph_buffer = Append(@, line_text),
                     !.buffered = Append(@, line_text),
                     !.branch = "paragraph"]

ImageBlockChart(section) ==
  [type |-> "chart", section |-> section,
   description |-> <<"image block detected (image data handled separately)">>,
   chart_data |-> None]

\* `elif btype == 1`
process_image_block(st) ==
  LET f == flush_paragraph(st)
  IN [f EXCEPT !.content = Append(@, ImageBlockChart(f.current_section)),
               !.branch = "image"]

\* `else`: any other block type
process_other_block(st) == [flush_paragraph(st) EXCEPT !.branch = "other"]

\* ------------------------------------- the page builder as a function
RECURSIVE process_lines(_, _, _, _, _)
process_lines(st, lines, section_size, subsection_size, tol) ==
  IF lines = <<>> THEN st
  ELSE process_lines(process_line(st, Head(lines), section_size, subsection_size, tol),
                     Tail(lines), section_size, subsection_size, tol)

\* the body of `for b in blocks`
process_block(st, b, section_size, subsection_size, tol) ==
  IF b.type = 0 THEN process_lines(st, b.lines, section_size, subsection_size, tol)
  ELSE IF b.type = 1 THEN process_image_block(st)
  ELSE process_other_block(st)

RECURSIVE process_blocks(_, _, _, _, _)
process_blocks(st, blocks, section_size, subsection_size, tol) ==
  IF blocks = <<>> THEN st
  ELSE process_blocks(process_block(st, Head(blocks), section_size, subsection_size, tol),
                      Tail(blocks), section_size, subsection_size, tol)

\* the content list the function returns for a page
extract_paragraphs_and_headings_from_page(page, section_size, subsection_size, tol) ==
  flush_paragraph(
    process_blocks(NewBuilder, page.blocks, section_size, subsection_size, tol)).content

\* the default of the parameter tol, which parse_pdf does not pass
DefaultTol == 50

\* ------------------------------------------------- gather_font_sizes
\* the list `sizes` before set(): one entry per span of a text block
RECURSIVE spans_size_list(_)
spans_size_list(spans) ==
  IF spans = <<>> THEN <<>>
  ELSE <<Round1(Head(spans).size)>> \o spans_size_list(Tail(spans))

RECURSIVE lines_size_list(_)
lines_size_list(lines) ==
  IF lines = <<>> THEN <<>>
  ELSE spans_size_list(Head(lines)) \o lines_size_list(Tail(lines))

RECURSIVE blocks_size_list(_)
blocks_size_list(blocks) ==
  IF blocks = <<>> THEN <<>>
  ELSE (IF Head(blocks).type # 0 THEN <<>> ELSE lines_size_list(Head(blocks).lines))
       \o blocks_size_list(Tail(blocks))

RECURSIVE size_list(_)
size_list(d) ==
  IF d = <<>> THEN <<>> ELSE blocks_size_list(Head(d).blocks) \o size_list(Tail(d))

\* set(sizes)
set_of(l) == {l[k] : k \in 1..Len(l)}

\* sorted(S, reverse=True) of a set
RECURSIVE sorted_desc(_)
sorted_desc(S) ==
  IF S = {} THEN <<>>
  ELSE LET m == CHOOSE x \in S : \A y \in S : y <= x
       IN <<m>> \o sorted_desc(S \ {m})

\* sorted(l, reverse=True) of a list, duplicates kept
RECURSIVE sorted_list_desc(_)
sorted_list_desc(l) ==
  IF l = <<>> THEN <<>>
  ELSE LET k == CHOOSE k \in 1..Len(l) : \A j \in 1..Len(l) : l[j] <= l[k]
       IN <<l[k]>> \o sorted_list_desc(SubSeq(l, 1, k - 1) \o SubSeq(l, k + 1, Len(l)))

\* gather_font_sizes without set(): sorted(sizes, reverse=True)
gather_font_sizes_with_duplicates(d) == sorted_list_desc(size_list(d))

gather_font_sizes(d) == sorted_desc(set_of(size_list(d)))

\* ------------------------------------------------- the collaborators
\* page.get_text("text"): the text of the page's text blocks
RECURSIVE lines_text(_)
lines_text(lines) ==
  IF lines = <<>> THEN <<>> ELSE join_spans(Head(lines)) \o lines_text(Tail(lines))

RECURSIVE blocks_text(_)
blocks_text(blocks) ==
  IF blocks = <<>> THEN <<>>
  ELSE (IF Head(blocks).type = 0 THEN lines_text(Head(blocks).lines) ELSE <<>>)
       \o blocks_text(Tail(blocks))

\* not (`not page_text or page_text.strip() == ""`)
has_text(page) == strip(blocks_text(page.blocks)) # <<>>

TableItem(grid) ==
  [type |-> "table", section |-> None, description |-> None, table_data |-> grid]

\* What extract_tables gets from camelot: `first` is the outcome of the
\* read with flavor_first, `second` that of the read with the other
\* flavor, made only when the first returned no table.  An outcome is
\* [raised, tables].  The result is [raised, value]: an exception that
\* leaves the function, or the list it returns.
camelot_tables(first, second) ==
  IF first.raised THEN first
  ELSE IF first.tables = <<>> THEN second
  ELSE first

\* extract_tables with no try/except around the camelot calls
extract_tables_uncaught(first, second) ==
  LET tables == camelot_tables(first, second)
  IN IF tables.raised THEN [raised |-> TRUE, value |-> <<>>]
     ELSE [raised |-> FALSE,
           value |-> [k \in 1..Len(tables.tables) |-> TableItem(tables.tables[k])]]

extract_tables(first, second) ==
  LET tables == camelot_tables(first, second)
  IN IF tables.raised THEN [raised |-> FALSE, value |-> <<>>]
     ELSE [raised |-> FALSE,
           value |-> [k \in 1..Len(tables.tables) |-> TableItem(tables.tables[k])]]

ImageChart(description) ==
  [type |-> "chart", section |-> None, description |-> description,
   chart_data |-> None]

\* the chart item of one image; img is what the image source and the OCR
\* engine do for it: [extracted, ocr_raised, ocr_text]
image_item(img, enable_ocr) ==
  LET desc == IF enable_ocr
              THEN (IF img.ocr_raised THEN None ELSE strip(img.ocr_text))
              ELSE None
  IN IF ~img.extracted THEN ImageChart(<<"image detected (failed to extract)">>)
     ELSE ImageChart(IF desc = None \/ desc = <<>> THEN <<"image detected">> ELSE desc)

extract_images_and_ocr(image_list, enable_ocr) ==
  [k \in 1..Len(image_list) |-> image_item(image_list[k], enable_ocr)]

\* ocr_page_image; o is what the renderer and the OCR engine do:
\* [raised, rendered, text]
ocr_page_image(o) ==
  IF o.raised THEN <<>>
  ELSE IF o.rendered THEN o.text
  ELSE <<>>

\* the OCR paragraph with the text as read, not passed through clean_line
ocr_items_raw(ocr_text) ==
  IF ocr_text # <<>> /\ strip(ocr_text) # <<>>
  THEN <<[type |-> "paragraph", section |-> None, sub_section |-> None,
          text |-> ocr_text]>>
  ELSE <<>>

\* the items parse_pdf makes of the page OCR's text
ocr_items(ocr_text) ==
  IF ocr_text # <<>> /\ strip(ocr_text) # <<>>
  THEN <<[type |-> "paragraph", section |-> None, sub_section |-> None,
          text |-> clean_line(ocr_text)]>>
  ELSE <<>>

\* the new items put before the page's items
extend_items_in_front(content_items, items) ==
  IF items # <<>> THEN items \o content_items ELSE content_items

\* `if tables: content_items.extend(tables)`
extend_items(content_items, items) ==
  IF items # <<>> THEN content_items \o items ELSE content_items

\* the page entry numbered from 0
page_entry_from_zero(i, content_items) ==
  [page_number |-> i, content |-> content_items]

\* the dict appended to result["pages"]
page_entry(i, content_items) ==
  [page_number |-> i + 1, content |-> content_items]

\* ------------------------------------------------------------ inputs
Span(text, size, font) == [text |-> text, size |-> size, font |-> font]

\* span texts: plain, numbered at depth 1, 2 and 3, numbering with an empty
\* remainder, digits and a dot without a separator, white space only,
\* inner no-break space, outer white space
SpanTexts ==
  { <<"a">>,
    <<"1", " ", "a">>,
    <<"2", ".", "1", " ", "b">>,
    <<"1", ".", "1", ".", "2", "-", "a">>,
    <<"1", "-">>,
    <<"1", ".", "a">>,
    <<" ", "~">>,
    <<"a", "~", " ", "b">>,
    <<"~", "b", " ">> }

\* The lines a page may hold.  Sizes are raw, in hundredths: 9.96 and
\* 10.04 both round to 10.0, and 13.6 is within 0.5 of 14.0.  Every span
\* text comes in a small and a large size and in a regular and a bold font;
\* to these are added a line without spans, a line at 13.6, and two-span
\* lines whose text, size and boldness come from different spans.
Lines ==
  { <<Span(t, z, f)>> : t \in SpanTexts, z \in {996, 1400},
                        f \in {"Helvetica", "Helvetica-Bold"} }
  \cup { <<>>,
         <<Span(<<"a">>, 1360, "Helvetica")>>,
         <<Span(<<"1", " ", "a">>, 1360, "Helvetica-Bold")>>,
         <<Span(<<"2">>, 1400, "Helvetica"), Span(<<".", "1", " ", "b">>, 996, "Arial-BOLDMT")>>,
         <<Span(<<" ">>, 1400, "Helvetica"), Span(<<"a">>, 1004, "Helvetica")>> }

\* the thresholds and tolerances a caller may pass
SizeOpts == {<<>>, <<0>>, <<1000>>, <<1400>>}

Tols == {0, 50}

\* lines and blocks handled in one call of the page builder
MaxEvents == 3

\* ------------------------------------------------------------- state
VARIABLES
  section_size, subsection_size, tol,   \* parameters of the page builder
  current_section, current_sub,         \* its locals
  content, paragraph_buffer,
  flushed, buffered, branch,            \* history: see NewBuilder
  line,                                 \* history: the spans of the last line
  ppc,                                  \* "idle" | "loop" | "returned"
  n,                                    \* lines and blocks handled so far
  doc, enable_ocr,                      \* the inputs of parse_pdf
  pc,                                   \* where parse_pdf is
  i, sizes, result, content_items,      \* its locals
  text_items, tables_call, image_list,  \* history: what the page's calls
  ocr_call                              \* returned or were given

pvars == <<section_size, subsection_size, tol, current_section, current_sub,
           content, paragraph_buffer, flushed, buffered, branch, line,
           ppc, n>>

dvars == <<doc, enable_ocr, pc, i, sizes, result, content_items, text_items,
           tables_call, image_list, ocr_call>>

vars == <<pvars, dvars>>

Builder ==
  [current_section |-> current_section, current_sub |-> current_sub,
   content |-> content, paragraph_buffer |-> paragraph_buffer,
   flushed |-> flushed, buffered |-> buffered, branch |-> branch]

SetBuilder(st) ==
  /\ current_section' = st.current_section
  /\ current_sub' = st.current_sub
  /\ content' = st.content
  /\ paragraph_buffer' = st.paragraph_buffer
  /\ flushed' = st.flushed
  /\ buffered' = st.buffered
  /\ branch' = st.branch

\* no document is being parsed
NoCall == [raised |-> FALSE, tables |-> <<>>]

NoOcr == [raised |-> FALSE, rendered |-> FALSE, text |-> <<>>]

DocIdle ==
  /\ doc = <<>> /\ enable_ocr = FALSE /\ pc = "idle"
  /\ i = 0 /\ sizes = <<>> /\ result = <<>> /\ content_items = <<>>
  /\ text_items = <<>> /\ tables_call = NoCall /\ image_list = <<>>
  /\ ocr_call = NoOcr

\* ------------------------------------- the page builder, step by step
PageInit ==
  /\ section_size = <<>> /\ subsection_size = <<>> /\ tol = 0
  /\ current_section = None /\ current_sub = None
  /\ content = <<>> /\ paragraph_buffer = <<>>
  /\ flushed = 0 /\ buffered = <<>> /\ branch = "none" /\ line = <<>>
  /\ ppc = "idle" /\ n = 0
  /\ DocIdle

\* a call: the parameters are bound and the locals initialised
Call ==
  /\ ppc \in {"idle", "returned"}
  /\ section_size' \in SizeOpts
  /\ subsection_size' \in SizeOpts
  /\ tol' \in Tols
  /\ SetBuilder(NewBuilder)
  /\ line' = <<>>
  /\ ppc' = "loop"
  /\ n' = 0
  /\ UNCHANGED dvars

\* one line of a text block
ProcessLine ==
  /\ ppc = "loop" /\ n < MaxEvents
  /\ \E spans \in Lines :
       /\ SetBuilder(process_line(Builder, spans, section_size, subsection_size, tol))
       /\ line' = spans
  /\ n' = n + 1
  /\ UNCHANGED <<section_size, subsection_size, tol, ppc, dvars>>

ProcessImageBlock ==
  /\ ppc = "loop" /\ n < MaxEvents
  /\ SetBuilder(process_image_block(Builder))
  /\ line' = <<>>
  /\ n' = n + 1
  /\ UNCHANGED <<section_size, subsection_size, tol, ppc, dvars>>

ProcessOtherBlock ==
  /\ ppc = "loop" /\ n < MaxEvents
  /\ SetBuilder(process_other_block(Builder))
  /\ line' = <<>>
  /\ n' = n + 1
  /\ UNCHANGED <<section_size, subsection_size, tol, ppc, dvars>>

\* the blocks are exhausted: the final flush and the return
Return ==
  /\ ppc = "loop"
  /\ SetBuilder([flush_paragraph(Builder) EXCEPT !.branch = "return"])
  /\ line' = <<>>
  /\ ppc' = "returned"
  /\ UNCHANGED <<section_size, subsection_size, tol, n, dvars>>

PageNext == Call \/ ProcessLine \/ ProcessImageBlock \/ ProcessOtherBlock \/ Return

SpecPage == PageInit /\ [][PageNext]_vars

\* ------------------------------------------------ documents, outcomes
TextBlock(lines) == [type |-> 0, lines |-> lines]

ImageBlock == [type |-> 1, lines |-> <<>>]

OtherBlock == [type |-> 2, lines |-> <<>>]

\* the pages documents are made of: without blocks; a scan, whose only
\* span is white space; a title at the largest size with a numbered line
\* and body text; body text with an image and a line without spans; a
\* numbered subsection with body text; a line of two spans
DocPages ==
  { [blocks |-> <<>>],
    [blocks |-> <<ImageBlock,
                  TextBlock(<< <<Span(<<" ", "~">>, 1400, "Helvetica")>> >>)>>],
    [blocks |-> <<TextBlock(<< <<Span(<<"a">>, 1400, "Helvetica-Bold")>>,
                               <<Span(<<"1", " ", "a">>, 996, "Helvetica")>> >>),
                  TextBlock(<< <<Span(<<"a", "~", " ", "b">>, 1004, "Helvetica")>> >>)>>],
    [blocks |-> <<TextBlock(<< <<Span(<<"b">>, 1004, "Helvetica-Bold")>> >>),
                  ImageBlock,
                  TextBlock(<< <<Span(<<"a">>, 996, "Helvetica")>>, <<>> >>)>>],
    [blocks |-> <<TextBlock(<< <<Span(<<"2", ".", "1", " ", "b">>, 1200, "Helvetica")>>,
                               <<Span(<<"a">>, 1004, "Helvetica")>> >>),
                  OtherBlock>>],
    [blocks |-> <<TextBlock(<< <<Span(<<"a">>, 1200, "Helvetica"),
                                 Span(<<"b">>, 1400, "Arial-BOLDMT")>> >>)>>] }

\* pages of a document
MaxPages == 2

Docs == UNION {[1..k -> DocPages] : k \in 0..MaxPages}

Grid1 == << <<"x">> >>

Grid2 == << <<"y", "z">>, <<"u", "v">> >>

\* what a camelot read does: raises, finds nothing, finds tables
FirstReads ==
  { [raised |-> TRUE, tables |-> <<>>], [raised |-> FALSE, tables |-> <<>>],
    [raised |-> FALSE, tables |-> <<Grid2, Grid1>>] }

SecondReads ==
  { [raised |-> TRUE, tables |-> <<>>], [raised |-> FALSE, tables |-> <<>>],
    [raised |-> FALSE, tables |-> <<Grid1>>] }

Image(extracted, ocr_raised, ocr_text) ==
  [extracted |-> extracted, ocr_raised |-> ocr_raised, ocr_text |-> ocr_text]

\* the images of a page with what happens to each: none; one that fails to
\* extract; one whose OCR raises; one read as text before one that fails
ImageLists ==
  { <<>>,
    <<Image(FALSE, FALSE, <<>>)>>,
    <<Image(TRUE, TRUE, <<>>)>>,
    <<Image(TRUE, FALSE, <<"a", " ">>), Image(FALSE, FALSE, <<>>)>> }

\* the page OCR: raises, renders nothing, reads nothing, reads white space,
\* reads text
OcrOutcomes ==
  { [raised |-> TRUE, rendered |-> FALSE, text |-> <<>>],
    [raised |-> FALSE, rendered |-> FALSE, text |-> <<>>],
    [raised |-> FALSE, rendered |-> TRUE, text |-> <<" ", "~">>],
    [raised |-> FALSE, rendered |-> TRUE, text |-> <<" ", "a", "~", " ", "b">>] }

\* ---------------------------------------------------------- parse_pdf
PageIdle ==
  /\ current_section = None /\ current_sub = None
  /\ content = <<>> /\ paragraph_buffer = <<>>
  /\ flushed = 0 /\ buffered = <<>> /\ branch = "none" /\ line = <<>>
  /\ ppc = "idle" /\ n = 0

bvars == <<current_section, current_sub, content, paragraph_buffer, flushed,
           buffered, branch, line, ppc, n, tol>>

Init ==
  /\ doc \in Docs /\ enable_ocr \in BOOLEAN
  /\ pc = "open"
  /\ i = 0 /\ sizes = <<>> /\ result = <<>> /\ content_items = <<>>
  /\ text_items = <<>> /\ tables_call = NoCall /\ image_list = <<>>
  /\ ocr_call = NoOcr
  /\ section_size = <<>> /\ subsection_size = <<>> /\ tol = DefaultTol
  /\ PageIdle

\* the font profile, before the loop over the pages
Open ==
  /\ pc = "open"
  /\ sizes' = gather_font_sizes(doc)
  /\ section_size' = IF Len(sizes') >= 1 THEN <<sizes'[1]>> ELSE <<>>
  /\ subsection_size' = IF Len(sizes') >= 2 THEN <<sizes'[2]>> ELSE <<>>
  /\ pc' = IF Len(doc) = 0 THEN "done" ELSE "page"
  /\ UNCHANGED <<doc, enable_ocr, i, result, content_items, text_items,
                 tables_call, image_list, ocr_call, bvars>>

\* a page without text, OCR enabled: the page OCR
OcrPage ==
  /\ pc = "page" /\ ~has_text(doc[i + 1]) /\ enable_ocr
  /\ \E o \in OcrOutcomes :
       /\ ocr_call' = o
       /\ content_items' = ocr_items(ocr_page_image(o))
  /\ pc' = "images"
  /\ UNCHANGED <<doc, enable_ocr, i, sizes, result, text_items, tables_call,
                 image_list, section_size, subsection_size, bvars>>

\* a page without text, OCR disabled
BlankPage ==
  /\ pc = "page" /\ ~has_text(doc[i + 1]) /\ ~enable_ocr
  /\ content_items' = <<>>
  /\ pc' = "images"
  /\ UNCHANGED <<doc, enable_ocr, i, sizes, result, text_items, tables_call,
                 image_list, ocr_call, section_size, subsection_size, bvars>>

\* a page with text: its headings and paragraphs
TextPage ==
  /\ pc = "page" /\ has_text(doc[i + 1])
  /\ text_items' = extract_paragraphs_and_headings_from_page(
                     doc[i + 1], section_size, subsection_size, tol)
  /\ content_items' = text_items'
  /\ pc' = "tables"
  /\ UNCHANGED <<doc, enable_ocr, i, sizes, result, tables_call, image_list,
                 ocr_call, section_size, subsection_size, bvars>>

Tables ==
  /\ pc = "tables"
  /\ \E first \in FirstReads, second \in SecondReads :
       LET tables == extract_tables(first, second)
       IN /\ tables_call' = camelot_tables(first, second)
          /\ IF tables.raised
             THEN pc' = "raised" /\ UNCHANGED content_items
             ELSE /\ content_items' = extend_items(content_items, tables.value)
                  /\ pc' = "images"
  /\ UNCHANGED <<doc, enable_ocr, i, sizes, result, text_items, image_list,
                 ocr_call, section_size, subsection_size, bvars>>

Images ==
  /\ pc = "images"
  /\ \E imgs \in ImageLists :
       /\ image_list' = imgs
       /\ content_items' =
            extend_items(content_items, extract_images_and_ocr(imgs, enable_ocr))
  /\ pc' = "append"
  /\ UNCHANGED <<doc, enable_ocr, i, sizes, result, text_items, tables_call,
                 ocr_call, section_size, subsection_size, bvars>>

\* result["pages"].append(...) and the step to the next page
AppendPage ==
  /\ pc = "append"
  /\ result' = Append(result, page_entry(i, content_items))
  /\ i' = i + 1
  /\ pc' = IF i + 1 < Len(doc) THEN "page" ELSE "done"
  /\ text_items' = <<>> /\ tables_call' = NoCall /\ image_list' = <<>>
  /\ ocr_call' = NoOcr
  /\ UNCHANGED <<doc, enable_ocr, sizes, content_items, section_size,
                 subsection_size, bvars>>

Next == Open \/ OcrPage \/ BlankPage \/ TextPage \/ Tables \/ Images \/ AppendPage

Spec == Init /\ [][Next]_vars

\* ------------------------------------------- reading a content list
NumParagraphs(c) == Cardinality({k \in 1..Len(c) : c[k].type = "paragraph"})

IsHeading(it, level) == it.type = "heading" /\ it.level = level

\* index of the last level-`level` heading of c among positions lo+1..k-1,
\* or 0
LastHeading(c, level, lo, k) ==
  LET js == {j \in (lo + 1)..(k - 1) : IsHeading(c[j], level)}
  IN IF js = {} THEN 0 ELSE CHOOSE j \in js : \A j2 \in js : j2 <= j

\* the section and subsection in force at position k of c
SectionAt(c, k) ==
  LET j == LastHeading(c, 1, 0, k) IN IF j = 0 THEN None ELSE c[j].text

SubSectionAt(c, k) ==
  LET j == LastHeading(c, 2, LastHeading(c, 1, 0, k), k)
  IN IF j = 0 THEN None ELSE c[j].text

LastItem(c) == c[Len(c)]

\* the last step handled a line with text and emitted a heading for it
EmittedHeading == branch \in {"section_size", "subsection_size", "numbering", "bold"}

\* the last step handled a line of a text block
LineHandled ==
  branch \in {"skipped", "section_size", "subsection_size", "numbering", "bold",
              "paragraph"}

LineNumInfo == is_numbered_heading(line_text_of(line))

\* ------------------------------------------------------------ claims
\* C1: a line whose text matches the numbering pattern is emitted as a
\* heading whose level is decided by the numbering alone (no dot: level 1,
\* one or more dots: level 2) and whose text is the remainder after the
\* numbering, whatever its font size and the size thresholds.
C1_NumberingDecidesLevel ==
  (EmittedHeading /\ LineNumInfo.matched) =>
    /\ LastItem(content).level = (IF LineNumInfo.level = 1 THEN 1 ELSE 2)
    /\ LastItem(content).text =
         (IF LineNumInfo.title # <<>> THEN LineNumInfo.title ELSE line_text_of(line))

\* C2: every paragraph item carries the section of the most recent level-1
\* heading before it in this call's content (None if there is none) and
\* the subsection of the most recent level-2 heading before it that no
\* level-1 heading follows (None otherwise); the context in force for the
\* lines still buffered is the one at the end of the content.
C2_ParagraphContext ==
  /\ \A k \in 1..Len(content) :
       content[k].type = "paragraph" =>
         /\ content[k].section = SectionAt(content, k)
         /\ content[k].sub_section = SubSectionAt(content, k)
  /\ current_section = SectionAt(content, Len(content) + 1)
  /\ current_sub = SubSectionAt(content, Len(content) + 1)

\* a subsection heading, then a section heading, then a paragraph: the
\* paragraph has the section and no subsection
C2_Witness ==
  /\ Len(content) = 3
  /\ IsHeading(content[1], 2) /\ IsHeading(content[2], 1)
  /\ content[3].type = "paragraph"
  /\ content[3].section = content[2].text
  /\ content[3].sub_section = None

\* the words of a sequence of texts, in order
RECURSIVE WordsOf(_)
WordsOf(texts) ==
  IF texts = <<>> THEN <<>>
  ELSE split(replace_nbsp(Head(texts))) \o WordsOf(Tail(texts))

ParagraphTexts(c) ==
  LET ks == {k \in 1..Len(c) : c[k].type = "paragraph"}
      RECURSIVE from(_)
      from(k) == IF k > Len(c) THEN <<>>
                 ELSE (IF k \in ks THEN <<c[k].text>> ELSE <<>>) \o from(k + 1)
  IN from(1)

C3_State ==
  /\ \A k \in 1..Len(content) :
       content[k].type = "paragraph" => content[k].text # <<>>
  /\ NumParagraphs(content) = flushed
  /\ WordsOf(buffered) = WordsOf(ParagraphTexts(content)) \o WordsOf(paragraph_buffer)
  /\ ppc = "returned" => paragraph_buffer = <<>>

C3_Step ==
  (ppc = "loop" /\ paragraph_buffer = <<>>) =>
    /\ NumParagraphs(content') = NumParagraphs(content)
    /\ branch' \in {"other", "return"} =>
         UNCHANGED <<content, current_section, current_sub, paragraph_buffer, flushed>>

\* C3: no paragraph item has empty text; the paragraph items are as many as
\* the flushes that found a non-empty buffer; the words of the buffered
\* lines are those of the emitted paragraphs followed by those still
\* buffered, and nothing is buffered after the end-of-page flush; a flush
\* on an empty buffer emits nothing and changes nothing.
C3_FlushAccounting == []C3_State /\ [][C3_Step]_vars

\* two paragraphs, the first flushed by a heading and the second by the
\* end of the page, one of them from a line with a no-break space
C3_Witness ==
  /\ ppc = "returned" /\ flushed = 2
  /\ \E k \in 1..Len(content) :
       content[k].type = "paragraph" /\ content[k].text = <<"a", " ", "b">>
  /\ <<"a", "~", " ", "b">> \in {buffered[k] : k \in 1..Len(buffered)}

\* C8: a line that matches the numbering pattern and is emitted as a
\* heading has as heading text the remainder after the numbering token, or
\* the whole line when the remainder is empty, whichever rule classified
\* it; a level-1 heading's text is the current section.
C8_HeadingTextStripsNumbering ==
  (EmittedHeading /\ LineNumInfo.matched) =>
    /\ LastItem(content).type = "heading"
    /\ LastItem(content).text =
         (IF LineNumInfo.title # <<>> THEN LineNumInfo.title ELSE line_text_of(line))
    /\ LastItem(content).level = 1 => current_section = LastItem(content).text
    /\ LastItem(content).level = 2 => current_sub = LastItem(content).text

\* "1 a" at the section size: a level-1 heading "a", the current section
C8_Witness ==
  /\ branch = "section_size"
  /\ line_text_of(line) = <<"1", " ", "a">>
  /\ Truthy(section_size) /\ max_size_of(line) = section_size[1]
  /\ LastItem(content) = Heading(1, <<"a">>)
  /\ current_section = <<"a">>

Page == doc[i + 1]

\* the tables the camelot reads of this page returned
ReturnedTables == IF tables_call.raised THEN <<>> ELSE tables_call.tables

\* the text the page OCR returned to parse_pdf
ReturnedOcrText ==
  IF ocr_call.raised \/ ~ocr_call.rendered THEN <<>> ELSE ocr_call.text

TypesOf(c) == {c[k].type : k \in 1..Len(c)}

\* C4: the content of a page with text is the items of the page builder,
\* then one table item per returned table, in the returned order and with
\* section None, then one chart item per image, with section None.
C4_TextTablesImages ==
  (pc \in {"images", "append"} /\ has_text(Page)) =>
    LET t == extract_paragraphs_and_headings_from_page(
               Page, section_size, subsection_size, DefaultTol)
        nt == Len(ReturnedTables)
        ni == IF pc = "append" THEN Len(image_list) ELSE 0
    IN /\ Len(content_items) = Len(t) + nt + ni
       /\ SubSeq(content_items, 1, Len(t)) = t
       /\ \A k \in 1..nt :
            /\ content_items[Len(t) + k].type = "table"
            /\ content_items[Len(t) + k].section = None
            /\ content_items[Len(t) + k].table_data = ReturnedTables[k]
       /\ \A k \in 1..ni :
            /\ content_items[Len(t) + nt + k].type = "chart"
            /\ content_items[Len(t) + nt + k].section = None

\* text items, two tables and two images on one page
C4_Witness ==
  /\ pc = "append" /\ has_text(Page)
  /\ Len(text_items) >= 3
  /\ ReturnedTables = <<Grid2, Grid1>>
  /\ Len(image_list) = 2
  /\ Len(content_items) = Len(text_items) + 4

\* C5: the content of a page without text is at most one paragraph with
\* no section and no subsection, present exactly when OCR is enabled and
\* the page OCR returned text that is not white space, and holding that
\* text normalised, then one chart item per image; nothing else.
C5_NoTextPage ==
  (pc = "append" /\ ~has_text(Page)) =>
    LET ocr == enable_ocr /\ strip(ReturnedOcrText) # <<>>
        np == IF ocr THEN 1 ELSE 0
    IN /\ Len(content_items) = np + Len(image_list)
       /\ ocr => content_items[1] =
                   [type |-> "paragraph", section |-> None, sub_section |-> None,
                    text |-> join(<<" ">>, split(replace_nbsp(ReturnedOcrText)))]
       /\ \A k \in 1..Len(image_list) : content_items[np + k].type = "chart"
       /\ TypesOf(content_items) \subseteq {"paragraph", "chart"}
       /\ ~enable_ocr => "paragraph" \notin TypesOf(content_items)
       /\ text_items = <<>> /\ tables_call = NoCall

\* a scanned page read as "a b", with two images
C5_Witness ==
  /\ pc = "append" /\ ~has_text(Page) /\ Page.blocks # <<>>
  /\ Len(content_items) = 3
  /\ content_items[1].type = "paragraph"
  /\ content_items[1].text = <<"a", " ", "b">>
  /\ content_items[2].type = "chart" /\ content_items[3].type = "chart"

C6_State ==
  /\ \A k \in 1..Len(result) : result[k].page_number = k
  /\ Len(result) = i
  /\ pc \in {"page", "tables", "images", "append"} => i < Len(doc)
  /\ pc = "done" => Len(result) = Len(doc)
  /\ pc # "open" =>
       /\ sizes = sorted_desc(set_of(size_list(doc)))
       /\ section_size = (IF sizes = <<>> THEN <<>> ELSE <<sizes[1]>>)
       /\ subsection_size = (IF Len(sizes) < 2 THEN <<>> ELSE <<sizes[2]>>)

C6_Step ==
  /\ pc # "open" => UNCHANGED <<sizes, section_size, subsection_size>>
  /\ result' # result =>
       /\ pc = "append"
       /\ Len(result') = Len(result) + 1
       /\ SubSeq(result', 1, Len(result)) = result
       /\ result'[Len(result')].content = content_items
  /\ (pc \in {"tables", "images", "append"} /\ pc' = "page") => result' # result

\* C6: the pages list has one entry per page of the document, numbered
\* 1, 2, ..., N in order; a page is appended before the next one starts;
\* the font profile is computed before the first page and never changes.
C6_PagesInOrder == []C6_State /\ [][C6_Step]_vars

\* a parsed two-page document with two font sizes
C6_Witness ==
  /\ pc = "done" /\ Len(doc) = 2 /\ Len(sizes) >= 2
  /\ Len(result) = 2
  /\ result[1].page_number = 1 /\ result[2].page_number = 2
  /\ result[1].content # <<>> /\ result[2].content # <<>>

\* C7: a collaborator that fails does not stop the page: no exception
\* leaves the call; the text items are unchanged; a failed table
\* extraction adds no table item; every image adds one chart item, a failed
\* one with the description "image detected (failed to extract)"; a failed
\* page OCR adds no paragraph; every page gets its entry.
C7_FailuresAbsorbed ==
  /\ pc # "raised"
  /\ pc = "done" => Len(result) = Len(doc)
  /\ (pc \in {"images", "append"} /\ has_text(Page)) =>
       /\ SubSeq(content_items, 1, Len(text_items)) = text_items
       /\ text_items = extract_paragraphs_and_headings_from_page(
                         Page, section_size, subsection_size, DefaultTol)
       /\ tables_call.raised => "table" \notin TypesOf(content_items)
  /\ pc = "append" =>
       LET base == Len(content_items) - Len(image_list)
       IN /\ base >= 0
          /\ \A k \in 1..Len(image_list) :
               /\ content_items[base + k].type = "chart"
               /\ ~image_list[k].extracted =>
                    content_items[base + k].description =
                      <<"image detected (failed to extract)">>
          /\ Cardinality({k \in 1..Len(content_items) :
                            /\ content_items[k].type = "chart"
                            /\ k > base}) = Len(image_list)
          /\ ~has_text(Page) =>
               Cardinality({k \in 1..Len(content_items) :
                              content_items[k].type = "chart"}) = Len(image_list)
  /\ (pc \in {"images", "append"} /\ ~has_text(Page) /\ ocr_call.raised) =>
       "paragraph" \notin TypesOf(content_items)

\* a page with text whose table extraction raised and whose second image
\* failed to extract
C7_Witness ==
  /\ pc = "append" /\ has_text(Page)
  /\ tables_call.raised
  /\ Len(image_list) = 2 /\ ~image_list[2].extracted
  /\ text_items # <<>>
  /\ content_items[Len(content_items)].description =
       <<"image detected (failed to extract)">>

\* the lines of the text blocks of a page, in order
RECURSIVE BlockLines(_)
BlockLines(blocks) ==
  IF blocks = <<>> THEN <<>>
  ELSE (IF Head(blocks).type = 0 THEN Head(blocks).lines ELSE <<>>)
       \o BlockLines(Tail(blocks))

\* the distinct rounded sizes of the document and its two largest
DocSizes == set_of(size_list(doc))

Largest(S) == CHOOSE x \in S : \A y \in S : y <= x

HasText(spans) == spans # <<>> /\ line_text_of(spans) # <<>>

\* a line below the second-largest size by more than the tolerance, not
\* numbered
BodyLine(spans) ==
  /\ HasText(spans)
  /\ ~is_numbered_heading(line_text_of(spans)).matched
  /\ Cardinality(DocSizes) >= 2
  /\ max_size_of(spans) < Largest(DocSizes \ {Largest(DocSizes)}) - DefaultTol

RECURSIVE BodyTexts(_)
BodyTexts(lines) ==
  IF lines = <<>> THEN <<>>
  ELSE (IF BodyLine(Head(lines)) THEN <<line_text_of(Head(lines))>> ELSE <<>>)
       \o BodyTexts(Tail(lines))

\* C10: with the thresholds of the document's font profile, every line
\* with text is emitted as a heading unless it is without numbering and
\* below the second-largest size less the tolerance; the paragraphs hold
\* the words of those lines and no others, so a line at the largest or the
\* second-largest size is never buffered, and a document with at most two
\* sizes has no paragraph from its text blocks.
C10_TopSizesAreHeadings ==
  (pc = "tables") =>
    LET lines == BlockLines(Page.blocks)
        withText == {k \in 1..Len(lines) : HasText(lines[k])}
        body == {k \in 1..Len(lines) : BodyLine(lines[k])}
    IN /\ \A z \in DocSizes : z > 0
       /\ \A k \in withText :
            (\A z \in DocSizes \ {Largest(DocSizes)} : max_size_of(lines[k]) >= z)
              => k \notin body
       /\ WordsOf(ParagraphTexts(text_items)) = WordsOf(BodyTexts(lines))
       /\ Cardinality({k \in 1..Len(text_items) : text_items[k].type = "heading"})
            = Cardinality(withText \ body)
       /\ Cardinality(DocSizes) <= 2 => "paragraph" \notin TypesOf(text_items)

\* three sizes in the document: on this page a line at the second-largest
\* size is a heading and a smaller line is a paragraph
C10_Witness ==
  /\ pc = "tables"
  /\ Cardinality(DocSizes) = 3
  /\ \E k \in 1..Len(text_items) : text_items[k].type = "paragraph"
  /\ \E k \in 1..Len(BlockLines(Page.blocks)) :
       /\ HasText(BlockLines(Page.blocks)[k])
       /\ max_size_of(BlockLines(Page.blocks)[k]) = Largest(DocSizes \ {Largest(DocSizes)})
  /\ \E k \in 1..Len(text_items) : text_items[k].type = "heading"

====
